---------------------------- MODULE Spec2Model ----------------------------
(***************************************************************************)
(* Model of static/js/dashboard.js: the DOMContentLoaded handler that      *)
(* fetches /api/stats, parses the body as JSON and draws two Chart.js      *)
(* charts (updateActivityChart, updateResponseChart).                      *)
(*                                                                         *)
(* JavaScript values are tagged pairs <<kind, n>> so that numbers, strings *)
(* and undefined can be told apart and compared.                           *)
(***************************************************************************)
EXTENDS Integers, Sequences, FiniteSets

(* ------------------------------ bounds -------------------------------- *)

\* Largest count the server puts into a field of the payload.
MaxCount == 2

\* Number of unrelated page events the event loop may run while the promise
\* chain is suspended.
MaxOther == 1

\* Number of direct calls of the two render routines in RenderSpec.
MaxCalls == 2

(* --------------------------- JavaScript values ------------------------ *)

Num(n) == <<"number", n>>

\* The value of a property the object does not have.
Undefined == <<"undefined", 0>>

\* A non-numeric value the server may put into a field.
Str == <<"string", 0>>

Values == {Num(n) : n \in 0..MaxCount} \cup {Undefined, Str}

\* What JSON.parse can give for the body: null, or a value whose five
\* properties each are some value or absent (a primitive or an array reads
\* as an object with every property absent).
JsNull ==
    [kind |-> "null", post_count |-> Undefined, reply_count |-> Undefined,
     mention_count |-> Undefined, text_response_count |-> Undefined,
     image_response_count |-> Undefined]

JsObjects ==
    [kind : {"object"}, post_count : Values, reply_count : Values,
     mention_count : Values, text_response_count : Values,
     image_response_count : Values]

JsonValues == JsObjects \cup {JsNull}

\* The callback's parameter before any body has been parsed.
NoData ==
    [kind |-> "none", post_count |-> Undefined, reply_count |-> Undefined,
     mention_count |-> Undefined, text_response_count |-> Undefined,
     image_response_count |-> Undefined]

\* HTTP statuses the endpoint may answer with.
Statuses == {200, 404}

\* The response fetch resolved with, and its absence before that.
Response(s) == <<"response", s>>

NoResponse == <<"none", 0>>

\* The ids of the two canvas elements the script looks up.
SurfaceIds == {"activityChart", "responseChart"}

(* ------------------------------- state -------------------------------- *)

VARIABLES
    pc,         \* position of the promise chain of the handler
    surfaces,   \* id -> whether the page holds a canvas of that id
    fetches,    \* number of GET /api/stats issued
    response,   \* HTTP status of the response fetch resolved with
    data,       \* the parsed body passed to the render callback
    invoked,    \* the render routines entered, in order
    charts,     \* the calls of the Chart constructor, in order
    canvas,     \* id -> what is drawn on that surface
    log,        \* the events of the run, in order
    others,     \* unrelated page events run so far
    calls,      \* direct calls of the render routines (RenderSpec)
    unhandled   \* an unhandled rejection or exception occurred

vars == <<pc, surfaces, fetches, response, data, invoked, charts, canvas,
          log, others, calls, unhandled>>

\* The part of the state a render routine reads and writes.
Page ==
    [invoked |-> invoked, charts |-> charts, canvas |-> canvas, log |-> log]

(* --------------------------- render routines -------------------------- *)

\* Mutant: the first two fields in the wrong order.
ActivityConfig_swapped(d) ==
    [type |-> "bar",
     labels |-> <<"Posts", "Replies", "Mentions">>,
     datasets |-> << [label |-> "Count",
                      data |-> <<d.reply_count, d.post_count,
                                 d.mention_count>>,
                      borderWidth |-> 1] >>,
     beginAtZero |-> TRUE]

ActivityConfig(d) ==
    [type |-> "bar",
     labels |-> <<"Posts", "Replies", "Mentions">>,
     datasets |-> << [label |-> "Count",
                      data |-> <<d.post_count, d.reply_count,
                                 d.mention_count>>,
                      borderWidth |-> 1] >>,
     beginAtZero |-> TRUE]

\* Mutant: the two fields in the wrong order.
ResponseConfig_swapped(d) ==
    [type |-> "pie",
     labels |-> <<"Text Responses", "Image Responses">>,
     datasets |-> << [data |-> <<d.image_response_count,
                                 d.text_response_count>>,
                      borderWidth |-> 1] >>]

\* Mutant: a field that is not a number is replaced by 0 (field || 0).
OrZero(v) == IF v[1] = "number" THEN v ELSE Num(0)

ResponseConfig_defaulting(d) ==
    [type |-> "pie",
     labels |-> <<"Text Responses", "Image Responses">>,
     datasets |-> << [data |-> <<OrZero(d.text_response_count),
                                 OrZero(d.image_response_count)>>,
                      borderWidth |-> 1] >>]

ResponseConfig(d) ==
    [type |-> "pie",
     labels |-> <<"Text Responses", "Image Responses">>,
     datasets |-> << [data |-> <<d.text_response_count,
                                 d.image_response_count>>,
                      borderWidth |-> 1] >>]

\* new Chart(ctx, config): the library draws synchronously into the surface.
NewChart(id, config, page) ==
    [page EXCEPT !.charts = Append(@, [ctx |-> id, config |-> config]),
                 !.canvas = [@ EXCEPT ![id] = config.type],
                 !.log    = Append(@, id)]

\* Entering a render routine.
Enter(name, page) == [page EXCEPT !.invoked = Append(@, name)]

\* Mutant: a missing element is tolerated (optional chaining) and the
\* constructor is entered without a context.
RenderThrows_onlyNull(id, d, surf) == d.kind = "null"

\* getElementById(id).getContext('2d') throws on a missing element, and
\* reading a property of null throws while the config is being built; both
\* happen before the constructor is entered.
RenderThrows(id, d, surf) == ~surf[id] \/ d.kind = "null"

\* Mutant: the data array is kept across calls and pushed onto.
updateActivityChart_accumulate(d, surf, page) ==
    LET p == Enter("updateActivityChart", page)
        old == SelectSeq(p.charts, LAMBDA c : c.ctx = "activityChart")
        carried == IF old = <<>> THEN <<>>
                   ELSE old[Len(old)].config.datasets[1].data
        cfg == [ActivityConfig(d) EXCEPT
                   !.datasets[1].data = carried \o @]
    IN  IF RenderThrows("activityChart", d, surf)
        THEN [threw |-> TRUE, page |-> p]
        ELSE [threw |-> FALSE, page |-> NewChart("activityChart", cfg, p)]

updateActivityChart(d, surf, page) ==
    LET p == Enter("updateActivityChart", page)
    IN  IF RenderThrows("activityChart", d, surf)
        THEN [threw |-> TRUE, page |-> p]
        ELSE [threw |-> FALSE,
              page |-> NewChart("activityChart", ActivityConfig(d), p)]

updateResponseChart(d, surf, page) ==
    LET p == Enter("updateResponseChart", page)
    IN  IF RenderThrows("responseChart", d, surf)
        THEN [threw |-> TRUE, page |-> p]
        ELSE [threw |-> FALSE,
              page |-> NewChart("responseChart", ResponseConfig(d), p)]

\* Mutant: the two calls in the other order.
RenderBody_swapped(d, surf, page) ==
    LET a == updateResponseChart(d, surf, page)
    IN  IF a.threw THEN a ELSE updateActivityChart(d, surf, a.page)

\* Mutant: each call in its own try/catch, so the second runs whatever the
\* first did.
RenderBody_continue(d, surf, page) ==
    LET a == updateActivityChart(d, surf, page)
        b == updateResponseChart(d, surf, a.page)
    IN  [threw |-> a.threw \/ b.threw, page |-> b.page]

\* Mutant: a snapshot with nothing to show is not drawn.
RenderBody_skipEmpty(d, surf, page) ==
    LET a == updateActivityChart(d, surf, page)
        empty == /\ d.kind = "object"
                 /\ \A v \in {d.post_count, d.reply_count, d.mention_count,
                              d.text_response_count, d.image_response_count} :
                       v = Num(0)
    IN  IF empty THEN [threw |-> FALSE, page |-> page]
        ELSE IF a.threw THEN a ELSE updateResponseChart(d, surf, a.page)

\* data => { updateActivityChart(data); updateResponseChart(data); }
RenderBody(d, surf, page) ==
    LET a == updateActivityChart(d, surf, page)
    IN  IF a.threw THEN a ELSE updateResponseChart(d, surf, a.page)

(* ------------------------------ actions ------------------------------- *)

Init ==
    /\ pc = "loading"
    /\ surfaces \in [SurfaceIds -> BOOLEAN]
    /\ fetches = 0
    /\ response = NoResponse
    /\ data = NoData
    /\ invoked = <<>>
    /\ charts = <<>>
    /\ canvas = [id \in SurfaceIds |-> "blank"]
    /\ log = <<>>
    /\ others = 0
    /\ calls = 0
    /\ unhandled = FALSE

\* The page-ready event runs the handler, which issues the one fetch and
\* returns; the chain is suspended until the network answers.
DOMContentLoaded ==
    /\ pc = "loading"
    /\ pc' = "fetching"
    /\ fetches' = fetches + 1
    /\ log' = log \o <<"page_ready", "fetch">>
    /\ UNCHANGED <<surfaces, response, data, invoked, charts, canvas,
                   others, calls, unhandled>>

\* fetch resolves with a response of any status; the first then-callback
\* calls response.json(), which starts reading the body.
FetchResolve ==
    /\ pc = "fetching"
    /\ \E s \in Statuses : response' = Response(s)
    /\ pc' = "reading"
    /\ UNCHANGED <<surfaces, fetches, data, invoked, charts, canvas, log,
                   others, calls, unhandled>>

\* Mutant: a catch in the middle of the chain swallows the rejection, so
\* the render callback runs with undefined and throws on its first read.
FetchReject_swallowed ==
    /\ pc = "fetching"
    /\ pc' = "fetch_rejected"
    /\ invoked' = Append(invoked, "updateActivityChart")
    /\ unhandled' = TRUE
    /\ UNCHANGED <<surfaces, fetches, response, data, charts, canvas, log,
                   others, calls>>

\* fetch rejects (network error): both then-callbacks are skipped and the
\* rejection reaches the end of the chain, where no handler is attached.
FetchReject ==
    /\ pc = "fetching"
    /\ pc' = "fetch_rejected"
    /\ unhandled' = TRUE
    /\ UNCHANGED <<surfaces, fetches, response, data, invoked, charts,
                   canvas, log, others, calls>>

\* response.json() resolves with the parsed body.
JsonResolve ==
    /\ pc = "reading"
    /\ \E v \in JsonValues : data' = v
    /\ pc' = "parsed"
    /\ log' = Append(log, "parsed")
    /\ UNCHANGED <<surfaces, fetches, response, invoked, charts, canvas,
                   others, calls, unhandled>>

\* Mutant: a body that does not parse makes the handler fetch again.
JsonReject_retry ==
    /\ pc = "reading"
    /\ pc' = "fetching"
    /\ fetches' = fetches + 1
    /\ log' = Append(log, "fetch")
    /\ UNCHANGED <<surfaces, response, data, invoked, charts, canvas,
                   others, calls, unhandled>>

\* response.json() rejects (the body is not valid JSON): the second
\* then-callback is skipped and nothing handles the rejection.
JsonReject ==
    /\ pc = "reading"
    /\ pc' = "json_rejected"
    /\ unhandled' = TRUE
    /\ UNCHANGED <<surfaces, fetches, response, data, invoked, charts,
                   canvas, log, others, calls>>

\* The second then-callback, run as one microtask; an exception thrown in
\* it rejects the last promise of the chain, which has no handler.
RenderCallback ==
    /\ pc = "parsed"
    /\ LET r == RenderBody(data, surfaces, Page)
       IN  /\ invoked' = r.page.invoked
           /\ charts' = r.page.charts
           /\ canvas' = r.page.canvas
           /\ log' = r.page.log
           /\ pc' = IF r.threw THEN "render_threw" ELSE "done"
           /\ unhandled' = r.threw
    /\ UNCHANGED <<surfaces, fetches, response, data, others, calls>>

\* Any other task of the page, run while the chain is suspended.
OtherPageEvent ==
    /\ pc \in {"fetching", "reading", "parsed"}
    /\ others < MaxOther
    /\ others' = others + 1
    /\ log' = Append(log, "other")
    /\ UNCHANGED <<pc, surfaces, fetches, response, data, invoked, charts,
                   canvas, calls, unhandled>>

Next ==
    \/ DOMContentLoaded
    \/ FetchResolve
    \/ FetchReject
    \/ JsonResolve
    \/ JsonReject
    \/ RenderCallback
    \/ OtherPageEvent

Spec == Init /\ [][Next]_vars

\* Once the promise is resolved its reaction is queued as a microtask, and
\* the microtask queue is always drained.
LiveSpec == Spec /\ WF_vars(RenderCallback)

(* ------------- the render routines called on their own ---------------- *)

\* Any parsed body and any page; the routines are then called directly, any
\* number of times up to MaxCalls and in any order.
RenderInit ==
    /\ pc = "parsed"
    /\ surfaces \in [SurfaceIds -> BOOLEAN]
    /\ fetches = 1
    /\ response \in {Response(s) : s \in Statuses}
    /\ data \in JsonValues
    /\ invoked = <<>>
    /\ charts = <<>>
    /\ canvas = [id \in SurfaceIds |-> "blank"]
    /\ log = <<"page_ready", "fetch", "parsed">>
    /\ others = 0
    /\ calls = 0
    /\ unhandled = FALSE

\* One direct call; an exception reaches the caller.
Call(r) ==
    /\ invoked' = r.page.invoked
    /\ charts' = r.page.charts
    /\ canvas' = r.page.canvas
    /\ log' = r.page.log
    /\ unhandled' = (unhandled \/ r.threw)
    /\ calls' = calls + 1
    /\ UNCHANGED <<pc, surfaces, fetches, response, data, others>>

CallActivity ==
    /\ calls < MaxCalls
    /\ Call(updateActivityChart(data, surfaces, Page))

CallResponse ==
    /\ calls < MaxCalls
    /\ Call(updateResponseChart(data, surfaces, Page))

RenderNext == CallActivity \/ CallResponse

RenderSpec == RenderInit /\ [][RenderNext]_vars

(* ------------------------------ claims -------------------------------- *)

A == "activityChart"

R == "responseChart"

\* The render callback has run to its end or to its exception.
Finished == pc \in {"done", "render_threw"}

CallsOn(id) == SelectSeq(charts, LAMBDA c : c.ctx = id)

IsPrefix(s, t) ==
    /\ Len(s) <= Len(t)
    /\ \A i \in 1..Len(s) : s[i] = t[i]

\* C1: every call of the Chart constructor on the activity surface has type
\* 'bar', labels Posts, Replies, Mentions and one dataset whose data is
\* post_count, reply_count, mention_count of the parsed snapshot, in that
\* order; and once the callback has run on a snapshot, with the surface on
\* the page, there is exactly one such call.
C1_ActivityChartArgs ==
    /\ \A i \in 1..Len(charts) :
          charts[i].ctx = A =>
             /\ charts[i].config.type = "bar"
             /\ charts[i].config.labels = <<"Posts", "Replies", "Mentions">>
             /\ Len(charts[i].config.datasets) = 1
             /\ charts[i].config.datasets[1].data =
                   <<data.post_count, data.reply_count, data.mention_count>>
    /\ (Finished /\ data.kind = "object" /\ surfaces[A]) => Len(CallsOn(A)) = 1

C1_Witness ==
    /\ pc = "done"
    /\ Len(CallsOn(A)) = 1
    /\ CallsOn(A)[1].config.datasets[1].data = <<Num(2), Num(1), Num(0)>>

\* C2: every call of the Chart constructor on the response surface has type
\* 'pie', labels Text Responses, Image Responses and one dataset whose data
\* is text_response_count, image_response_count of the parsed snapshot, in
\* that order; and once the callback has run to its end there is exactly
\* one such call.
C2_ResponseChartArgs ==
    /\ \A i \in 1..Len(charts) :
          charts[i].ctx = R =>
             /\ charts[i].config.type = "pie"
             /\ charts[i].config.labels =
                   <<"Text Responses", "Image Responses">>
             /\ Len(charts[i].config.datasets) = 1
             /\ charts[i].config.datasets[1].data =
                   <<data.text_response_count, data.image_response_count>>
    /\ (Finished /\ data.kind = "object" /\ surfaces[A] /\ surfaces[R]) =>
          Len(CallsOn(R)) = 1

C2_Witness ==
    /\ pc = "done"
    /\ Len(CallsOn(R)) = 1
    /\ CallsOn(R)[1].config.datasets[1].data = <<Num(2), Num(1)>>

\* C3: after the fetch rejected or the body failed to parse, no render
\* routine has been entered, the Chart constructor has not been called and
\* both surfaces are as they were.
C3_NoRenderAfterRejection ==
    pc \in {"fetch_rejected", "json_rejected"} =>
       /\ invoked = <<>>
       /\ charts = <<>>
       /\ \A id \in SurfaceIds : canvas[id] = "blank"

C3_Witness ==
    /\ pc = "fetch_rejected"
    /\ unhandled
    /\ surfaces[A] /\ surfaces[R]
    /\ others = 1

\* C4: at most one GET is issued, exactly one once the page-ready event has
\* been handled, and each chart is constructed at most once.
C4_OneCycle ==
    /\ fetches <= 1
    /\ (pc # "loading" => fetches = 1)
    /\ Len(CallsOn(A)) <= 1
    /\ Len(CallsOn(R)) <= 1
    /\ Len(charts) <= 2

C4_Witness ==
    /\ pc = "done"
    /\ fetches = 1
    /\ Len(CallsOn(A)) = 1
    /\ Len(CallsOn(R)) = 1
    /\ others = 1

\* C5: with the unrelated page events left out, the events of a run are a
\* prefix of page-ready, fetch, parsed, activity chart, response chart; and
\* the response-chart render comes right after the activity-chart render,
\* nothing between them.
C5_EventOrder ==
    /\ IsPrefix(SelectSeq(log, LAMBDA e : e # "other"),
                <<"page_ready", "fetch", "parsed", A, R>>)
    /\ \A i \in 1..Len(log) : log[i] = R => (i > 1 /\ log[i - 1] = A)

C5_Witness ==
    /\ pc = "done"
    /\ Len(log) = 6
    /\ log[4] = "other"
    /\ log[6] = R

\* C8 as stated: with either surface missing no chart is drawn in the run.
C8_Original ==
    (Finished /\ (~surfaces[A] \/ ~surfaces[R])) =>
       /\ unhandled
       /\ charts = <<>>
       /\ \A id \in SurfaceIds : canvas[id] = "blank"

\* C8: with a surface missing the callback ends in an exception nothing
\* handles; no chart is drawn when the activity surface is the missing one,
\* and the activity chart alone is drawn when only the response surface is
\* missing and the body is not null.
C8_MissingSurface ==
    (Finished /\ (~surfaces[A] \/ ~surfaces[R])) =>
       /\ pc = "render_threw"
       /\ unhandled
       /\ canvas[R] = "blank"
       /\ ~surfaces[A] =>
             (charts = <<>> /\ canvas[A] = "blank")
       /\ (surfaces[A] /\ data.kind = "object") =>
             (charts = <<[ctx |-> A, config |-> ActivityConfig(data)]>>
              /\ canvas[A] = "bar")

C8_Witness ==
    /\ pc = "render_threw"
    /\ surfaces[A] /\ ~surfaces[R]
    /\ Len(charts) = 1
    /\ canvas[A] = "bar"

\* C9 as stated: whether the response chart is drawn depends only on the
\* snapshot and its own surface, whatever became of the activity render.
C9_Original ==
    (Finished /\ data.kind = "object" /\ surfaces[R]) => canvas[R] = "pie"

\* C9: the activity chart is drawn exactly when the body is not null and
\* its surface exists, whatever the response surface; the response chart is
\* drawn exactly when moreover the activity render did not throw; and the
\* arguments of each depend on the snapshot alone.
C9_Dependence ==
    /\ Finished =>
          /\ canvas[A] = "bar" <=> (data.kind = "object" /\ surfaces[A])
          /\ canvas[R] = "pie" <=>
                (data.kind = "object" /\ surfaces[R] /\ surfaces[A])
    /\ \A i \in 1..Len(charts) :
          charts[i].config = IF charts[i].ctx = A THEN ActivityConfig(data)
                             ELSE ResponseConfig(data)

C9_Witness ==
    /\ pc = "render_threw"
    /\ ~surfaces[A] /\ surfaces[R]
    /\ data.kind = "object"
    /\ invoked = <<"updateActivityChart">>
    /\ canvas[R] = "blank"

\* C10 as stated, on a page that holds both surfaces: every body that
\* parses as JSON leads to both render calls.
C10_Original ==
    (Finished /\ surfaces[A] /\ surfaces[R]) =>
       invoked = <<"updateActivityChart", "updateResponseChart">>

\* C10: on a page that holds both surfaces, every body that parses to a
\* value other than null leads to both render calls and both charts,
\* whatever the HTTP status, and each entry of a dataset is the field of
\* the payload as received, undefined for an absent one.
C10_NoValidation ==
    (Finished /\ surfaces[A] /\ surfaces[R] /\ data.kind = "object") =>
       /\ pc = "done"
       /\ invoked = <<"updateActivityChart", "updateResponseChart">>
       /\ Len(charts) = 2
       /\ charts[1].config.datasets[1].data =
             <<data.post_count, data.reply_count, data.mention_count>>
       /\ charts[2].config.datasets[1].data =
             <<data.text_response_count, data.image_response_count>>

C10_Witness ==
    /\ pc = "done"
    /\ response = Response(404)
    /\ data.post_count = Undefined
    /\ data.text_response_count = Str
    /\ charts[1].config.datasets[1].data[1] = Undefined
    /\ charts[2].config.datasets[1].data[1] = Str

\* C7: once a body has parsed to an object on a page that holds both
\* surfaces, both charts are eventually drawn, whatever the values.
C7_BothEventuallyRendered ==
    (pc = "parsed" /\ data.kind = "object" /\ surfaces[A] /\ surfaces[R])
       ~> (canvas[A] = "bar" /\ canvas[R] = "pie" /\ Len(charts) = 2)

C7_Witness ==
    /\ pc = "done"
    /\ Len(charts) = 2
    /\ charts[1].config.datasets[1].data = <<Num(0), Num(0), Num(0)>>
    /\ charts[2].config.datasets[1].data = <<Num(0), Num(0)>>

\* C6: called again with the same snapshot, a render routine passes the
\* same labels and data to the constructor as before, nothing carried over
\* from the earlier call, and the snapshot is left as it was.
C6_Idempotent ==
    [][/\ data' = data
       /\ \A i \in 1..Len(charts') :
             charts'[i].config = IF charts'[i].ctx = A
                                 THEN ActivityConfig(data)
                                 ELSE ResponseConfig(data)
       /\ \A i, j \in 1..Len(charts') :
             charts'[i].ctx = charts'[j].ctx =>
                charts'[i].config = charts'[j].config]_vars

C6_Witness ==
    /\ calls = 2
    /\ Len(charts) = 2
    /\ charts[1].ctx = A /\ charts[2].ctx = A
    /\ charts[2].config.datasets[1].data = <<Num(2), Num(1), Num(0)>>

=============================================================================
